---- MODULE Spec2Model ----
(***************************************************************************)
(* Model of master.py: the promotion command of the Discord bot.           *)
(*                                                                         *)
(* handle_command runs on a single asyncio event loop.  A coroutine only   *)
(* gives up control at an await that really suspends, so everything        *)
(* between two such awaits is one atomic action here:                      *)
(*   - HandleCommand: lines 171-189 (both gates, the resolution of the     *)
(*     roles and the channel, the enumeration and the eligibility filter;  *)
(*     awaiting get_members_with_old_role does not suspend, because that   *)
(*     coroutine awaits nothing);                                          *)
(*   - Reply: the ctx.send of one of the three early exits;                *)
(*   - RemoveRoles, AddRoles, ChannelSend: the three awaits of one         *)
(*     change_role_and_send_message task, each of which either succeeds    *)
(*     or is denied by the platform (discord.Forbidden);                   *)
(*   - GatherReturn, GatherRaise: the two ways `await asyncio.gather`      *)
(*     resumes handle_command.                                             *)
(* The wall clock is read by check_join_time once per candidate; it may    *)
(* advance between two readings.                                           *)
(* ctx.send is taken to deliver the reply.                                 *)
(***************************************************************************)
EXTENDS Integers, Sequences, FiniteSets, Bags, TLC

\* ---------------------------------------------------------------- bounds
NMembers == 2        \* members of the guild
NInvocations == 2    \* invocations of the command (they may overlap)
MaxJoin == 1         \* latest join instant
MaxNow == 2          \* latest clock reading
MaxThreshold == 1    \* largest threshold argument

\* ------------------------------------------------- configuration (config.json)
ADMIN_ROLE_ID == "ADMIN_ROLE_ID"
OLD_ROLE_ID == "OLD_ROLE_ID"
NEW_ROLE_ID == "NEW_ROLE_ID"
CHANNEL_ID == "CHANNEL_ID"
\* UTC offset of pytz.timezone(TIMEZONE)
TIMEZONE == 3

None == "None"

Members == 1..NMembers
Invocations == 1..NInvocations
RoleIds == {ADMIN_ROLE_ID, OLD_ROLE_ID, NEW_ROLE_ID}
Thresholds == 0..MaxThreshold

\* the three replies of handle_command (lines 172, 176, 192), by meaning
NotAuthorizedText == "not authorized"
NotFoundText == "Role or channel not found."
NoCandidatesText == "no worthy candidates"
NotFoundLog == "Role or channel not found."
ForbiddenLog == "Error changing role and sending message"

VARIABLES
    now,          \* the latest reading of the wall clock (an instant, in seconds)
    commands,     \* how many times the command is issued in this run
    guildRoles,   \* ids of the roles that exist in the guild
    channels,     \* ids of the channels the bot can see
    roleIds,      \* member -> ids of the roles the member holds
    joinedAt,     \* member -> instant the member joined
    inv,          \* invocation -> state of that handle_command call
    ex,           \* invocation -> sequence of its executor tasks
    sent,         \* the announcement channel: the bag of messages delivered
    log           \* the bag of logging.error records

vars == <<now, commands, guildRoles, channels, roleIds, joinedAt, inv, ex, sent, log>>

\* ------------------------------------------------------------ collaborators
\* guild.get_role(id): the role, or None
get_role(id) == IF id \in guildRoles THEN id ELSE None

\* bot.get_channel(id): the channel, or None
get_channel(id) == IF id \in channels THEN id ELSE None

\* Member.roles: the roles of the guild whose id the member carries
MemberRoles(ids) == {get_role(r) : r \in ids} \ {None}

\* guild.members, in the order of the member cache
GuildMembers == [k \in 1..NMembers |-> k]

\* Role.members: the members of the guild that carry the role's id
RoleMembers(role) == SelectSeq(GuildMembers, LAMBDA m : role \in roleIds[m])

\* ---------------------------------------------------------------- datetimes
\* An aware datetime: its wall-clock reading and the UTC offset of its zone.
\* Member.joined_at is aware, in UTC.
joined_at(m) == [local |-> joinedAt[m], off |-> 0]

\* datetime.astimezone(tz): the same instant, read in the zone tz
astimezone(d, tz) == [local |-> d.local - d.off + tz, off |-> tz]

\* datetime.datetime.now(tz) when the clock reads instant t
datetime_now(t, tz) == [local |-> t + tz, off |-> tz]

\* (a - b).total_seconds() for aware datetimes: both are taken to UTC
total_seconds(a, b) == (a.local - a.off) - (b.local - b.off)

\* ------------------------------------------------------------ pure functions
check_join_time_ge(joined, threshold, t) ==
    LET join_time == astimezone(joined, TIMEZONE)
        current_time == datetime_now(t, TIMEZONE)
    IN  total_seconds(current_time, join_time) >= threshold

\* check_join_time(member, threshold), the clock reading t when it is called
check_join_time(joined, threshold, t) ==
    LET join_time == astimezone(joined, TIMEZONE)
        current_time == datetime_now(t, TIMEZONE)
    IN  total_seconds(current_time, join_time) > threshold

check_admin_role_stale(authorIds) ==
    ADMIN_ROLE_ID \in authorIds

\* check_admin_role(ctx), authorIds the role ids ctx.author carries
check_admin_role(authorIds) ==
    LET admin_role == get_role(ADMIN_ROLE_ID)
    IN  IF admin_role # None THEN admin_role \in MemberRoles(authorIds) ELSE FALSE

check_roles_and_channel_no_channel ==
    LET old_role == get_role(OLD_ROLE_ID)
        new_role == get_role(NEW_ROLE_ID)
    IN  ~(old_role = None \/ new_role = None)

check_roles_and_channel_no_new_role ==
    LET old_role == get_role(OLD_ROLE_ID)
        channel == get_channel(CHANNEL_ID)
    IN  ~(old_role = None \/ channel = None)

\* check_roles_and_channel(ctx): the result (the error is logged by the caller
\* of this operator, in HandleCommand)
check_roles_and_channel ==
    LET old_role == get_role(OLD_ROLE_ID)
        new_role == get_role(NEW_ROLE_ID)
        channel == get_channel(CHANNEL_ID)
    IN  ~(old_role = None \/ new_role = None \/ channel = None)

get_all_members == GuildMembers

\* get_members_with_old_role(guild)
get_members_with_old_role ==
    LET old_role == get_role(OLD_ROLE_ID)
    IN  IF old_role # None THEN RoleMembers(old_role) ELSE <<>>

\* the congratulation of line 106, for the member's mention
Congratulation(m) == [mention |-> m, text |-> "congratulation"]

\* ------------------------------------------------------------------ executor
\* One change_role_and_send_message task: its arguments and the awaits it has
\* completed so far, each with its result (ok, or denied with Forbidden).
\* `before` is not program state: it remembers which of the two roles the
\* member held when the task made its first call ({None} until then).
Executor(m, old_role, new_role, channel) ==
    [member |-> m, old_role |-> old_role, new_role |-> new_role,
     channel |-> channel, calls |-> <<>>, before |-> {None}]

Call(op, ok) == [op |-> op, ok |-> ok]

NextCallSendFirst(calls) ==
    IF calls = <<>> THEN "send"
    ELSE LET last == calls[Len(calls)]
         IN  IF ~last.ok THEN "raise"
             ELSE CASE last.op = "send" -> "remove_roles"
                    [] last.op = "remove_roles" -> "add_roles"
                    [] OTHER -> "return"

NextCallRetryAdd(calls) ==
    IF calls = <<>> THEN "remove_roles"
    ELSE LET last == calls[Len(calls)]
         IN  CASE last.op = "remove_roles" -> IF last.ok THEN "add_roles" ELSE "raise"
               [] last.op = "add_roles" ->
                    IF last.ok THEN "send" ELSE IF Len(calls) < 3 THEN "add_roles" ELSE "raise"
               [] OTHER -> IF last.ok THEN "return" ELSE "raise"

NextCallIgnoringDenial(calls) ==
    IF calls = <<>> THEN "remove_roles"
    ELSE LET last == calls[Len(calls)]
         IN  CASE last.op = "remove_roles" -> "add_roles"
               [] last.op = "add_roles" -> "send"
               [] OTHER -> IF last.ok THEN "return" ELSE "raise"

\* The body of change_role_and_send_message as a program counter: the next
\* thing the task does, given the awaits it has completed.  A denied await
\* enters the except clause, which logs and re-raises: the task ends with
\* the exception.
NextCall(calls) ==
    IF calls = <<>> THEN "remove_roles"
    ELSE LET last == calls[Len(calls)]
         IN  IF ~last.ok THEN "raise"
             ELSE CASE last.op = "remove_roles" -> "add_roles"
                    [] last.op = "add_roles" -> "send"
                    [] OTHER -> "return"

\* How the task ended, if it has
Outcome(e) ==
    CASE NextCall(e.calls) = "return" -> "returned"
      [] NextCall(e.calls) = "raise" -> "raised"
      [] OTHER -> "running"

OnForbiddenSilent(lg, i, m) == lg

\* except discord.Forbidden as e: logging.error(...)
OnForbidden(lg, i, m) == lg (+) SetToBag({[inv |-> i, member |-> m, msg |-> ForbiddenLog]})

remove_all_roles(ids, role) == {}

\* member.remove_roles(old_role) / member.add_roles(new_role) on the platform
remove_roles(ids, role) == ids \ {role}
add_roles(ids, role) == ids \cup {role}

\* The message executor e of invocation i delivers (the invocation is
\* recorded with it to tell the deliveries of overlapping invocations apart)
Announcement(i, e) == [inv |-> i, channel |-> e.channel, msg |-> Congratulation(e.member)]

channel_send_drop(msgs, msg) == msgs

\* channel.send(msg) on the platform: the channel is an append-only sink
channel_send(msgs, msg) == msgs (+) SetToBag({msg})

\* --------------------------------------------------------------------- gather
gatherFirstCompleted(tasks) ==
    IF \E k \in DOMAIN tasks : Outcome(tasks[k]) = "raised" THEN "raise"
    ELSE IF \E k \in DOMAIN tasks : Outcome(tasks[k]) = "returned" THEN "return"
    ELSE "pending"

gatherIgnoringFailures(tasks) ==
    IF \A k \in DOMAIN tasks : Outcome(tasks[k]) = "returned" THEN "return"
    ELSE "pending"

\* What `await asyncio.gather(*tasks)` does to handle_command: it raises the
\* first exception as soon as one task has raised, returns when all have
\* returned, and keeps handle_command suspended otherwise.
gather(tasks) ==
    IF \E k \in DOMAIN tasks : Outcome(tasks[k]) = "raised" THEN "raise"
    ELSE IF \A k \in DOMAIN tasks : Outcome(tasks[k]) = "returned" THEN "return"
    ELSE "pending"

GatherCancelChildren(tasks) ==
    [k \in DOMAIN tasks |->
        IF Outcome(tasks[k]) = "running"
        THEN [tasks[k] EXCEPT !.calls = Append(@, Call("cancelled", FALSE))]
        ELSE tasks[k]]

\* What gather does to the other tasks when it raises: nothing, they go on
GatherChildrenOnRaise(tasks) == tasks

\* ---------------------------------------------------------------------- state
IdleInvocation ==
    [pc |-> "Idle", authorIds |-> {}, threshold |-> 0, resolved |-> FALSE, held |-> {}, evals |-> <<>>, replies |-> <<>>]

\* Either one invocation, in a guild whose members joined at any instants and
\* hold any of the two roles, or overlapping invocations that race for the
\* first member, the only one to hold the source role, in a guild whose
\* members all joined at the latest instant
Init ==
    /\ guildRoles \in SUBSET RoleIds
    /\ channels \in SUBSET {CHANNEL_ID}
    /\ \/ /\ commands = 1
          /\ joinedAt \in [Members -> 0..MaxJoin]
          /\ roleIds \in [Members -> SUBSET (guildRoles \cap {OLD_ROLE_ID, NEW_ROLE_ID})]
       \/ /\ commands = NInvocations
          /\ joinedAt = [m \in Members |-> MaxJoin]
          /\ roleIds = [m \in Members |-> IF m = 1 THEN guildRoles \cap {OLD_ROLE_ID} ELSE {}]
    /\ now = MaxJoin
    /\ inv = [i \in Invocations |-> IdleInvocation]
    /\ ex = [i \in Invocations |-> <<>>]
    /\ sent = EmptyBag
    /\ log = EmptyBag

\* The clock readings of n successive calls of datetime.now, none before the
\* latest reading so far
Readings(n) ==
    {r \in [1..n -> now..MaxNow] : \A j \in 1..n, k \in 1..n : j < k => r[j] <= r[k]}

\* The filter of lines 185-189: one record per candidate, in order, with the
\* clock reading of its check_join_time call
Evaluate(members, threshold, r) ==
    [k \in 1..Len(members) |->
        [member |-> members[k], at |-> r[k],
         result |-> check_join_time(joined_at(members[k]), threshold, r[k])]]

TasksUnfiltered(evals, old_role, new_role, channel) ==
    [k \in 1..Len(evals) |-> Executor(evals[k].member, old_role, new_role, channel)]

\* tasks = [change_role_and_send_message(member, ...) for member in members if ...]
Tasks(evals, old_role, new_role, channel) ==
    LET chosen == SelectSeq(evals, LAMBDA e : e.result)
    IN  [k \in 1..Len(chosen) |-> Executor(chosen[k].member, old_role, new_role, channel)]

GateResourcesFirst(authorIds) ==
    IF ~check_roles_and_channel THEN "ResourceNotFound"
    ELSE IF ~check_admin_role(authorIds) THEN "AuthDenied"
    ELSE "Proceed"

\* The two gates of handle_command (lines 171-177), in their order
Gate(authorIds) ==
    IF ~check_admin_role(authorIds) THEN "AuthDenied"
    ELSE IF ~check_roles_and_channel THEN "ResourceNotFound"
    ELSE "Proceed"

MayStartSerialized(i) ==
    /\ i <= commands
    /\ \A j \in Invocations : j < i => inv[j].pc # "Idle"
    /\ \A j \in Invocations : \A k \in DOMAIN ex[j] : Outcome(ex[j][k]) # "running"

\* When the command handlers C and c (lines 195-216) start the i-th
\* invocation: whenever the command is issued, whatever the earlier
\* invocations are doing (invocations are numbered in their order of arrival)
MayStart(i) ==
    /\ i <= commands
    /\ \A j \in Invocations : j < i => inv[j].pc # "Idle"

\* handle_command from its call to its first suspension (lines 171-190)
HandleCommand(i) ==
    /\ inv[i].pc = "Idle"
    /\ MayStart(i)
    /\ \E authorIds \in SUBSET {ADMIN_ROLE_ID}, threshold \in Thresholds :
        LET started == [inv[i] EXCEPT !.authorIds = authorIds, !.threshold = threshold]
        IN  IF Gate(authorIds) = "AuthDenied"
            THEN /\ inv' = [inv EXCEPT ![i] = [started EXCEPT !.pc = "AuthDenied"]]
                 /\ UNCHANGED <<now, ex, log>>
            ELSE IF Gate(authorIds) = "ResourceNotFound"
            THEN /\ inv' = [inv EXCEPT ![i] = [started EXCEPT !.pc = "ResourceNotFound"]]
                 /\ log' = log (+) SetToBag({[inv |-> i, member |-> 0, msg |-> NotFoundLog]})
                 /\ UNCHANGED <<now, ex>>
            ELSE LET old_role == get_role(OLD_ROLE_ID)
                     new_role == get_role(NEW_ROLE_ID)
                     channel == get_channel(CHANNEL_ID)
                     members == get_members_with_old_role
                 IN  \E r \in Readings(Len(members)) :
                       LET evals == Evaluate(members, threshold, r)
                           tasks == Tasks(evals, old_role, new_role, channel)
                       IN  /\ inv' = [inv EXCEPT ![i] =
                                  [started EXCEPT
                                     !.pc = IF tasks # <<>> THEN "Fanout" ELSE "NoCandidates",
                                     !.resolved = TRUE,
                                     !.held = {m \in Members : OLD_ROLE_ID \in roleIds[m]},
                                     !.evals = evals]]
                           /\ ex' = [ex EXCEPT ![i] = tasks]
                           /\ now' = IF members = <<>> THEN now ELSE r[Len(members)]
                           /\ UNCHANGED log
    /\ UNCHANGED <<commands, guildRoles, channels, roleIds, joinedAt, sent>>

\* The text of the early exit the invocation is at
ReplyText(pc) ==
    CASE pc = "AuthDenied" -> NotAuthorizedText
      [] pc = "ResourceNotFound" -> NotFoundText
      [] OTHER -> NoCandidatesText

\* await ctx.send(...) of an early exit (lines 172-173, 176-177, 192)
Reply(i) ==
    /\ inv[i].pc \in {"AuthDenied", "ResourceNotFound", "NoCandidates"}
    /\ inv' = [inv EXCEPT ![i].replies = Append(@, ReplyText(inv[i].pc)),
                          ![i].pc = "Done"]
    /\ UNCHANGED <<now, commands, guildRoles, channels, roleIds, joinedAt, ex, sent, log>>

\* The task records the await it completed; a denied one is logged (line 109)
Completed(i, k, op, ok) ==
    /\ ex' = [ex EXCEPT ![i][k].calls = Append(@, Call(op, ok)),
                        ![i][k].before = IF ex[i][k].calls = <<>>
                                         THEN roleIds[ex[i][k].member]
                                         ELSE @]
    /\ log' = IF ok THEN log ELSE OnForbidden(log, i, ex[i][k].member)

\* await member.remove_roles(old_role) (line 103)
RemoveRoles(i, k) ==
    /\ NextCall(ex[i][k].calls) = "remove_roles"
    /\ \E ok \in BOOLEAN :
        /\ roleIds' = IF ok
                      THEN [roleIds EXCEPT ![ex[i][k].member] = remove_roles(@, ex[i][k].old_role)]
                      ELSE roleIds
        /\ Completed(i, k, "remove_roles", ok)
    /\ UNCHANGED <<now, commands, guildRoles, channels, joinedAt, inv, sent>>

\* await member.add_roles(new_role) (line 104)
AddRoles(i, k) ==
    /\ NextCall(ex[i][k].calls) = "add_roles"
    /\ \E ok \in BOOLEAN :
        /\ roleIds' = IF ok
                      THEN [roleIds EXCEPT ![ex[i][k].member] = add_roles(@, ex[i][k].new_role)]
                      ELSE roleIds
        /\ Completed(i, k, "add_roles", ok)
    /\ UNCHANGED <<now, commands, guildRoles, channels, joinedAt, inv, sent>>

\* await channel.send(...) (lines 105-107)
ChannelSend(i, k) ==
    /\ NextCall(ex[i][k].calls) = "send"
    /\ \E ok \in BOOLEAN :
        /\ sent' = IF ok
                   THEN channel_send(sent, Announcement(i, ex[i][k]))
                   ELSE sent
        /\ Completed(i, k, "send", ok)
    /\ UNCHANGED <<now, commands, guildRoles, channels, roleIds, joinedAt, inv>>

\* One step of the k-th task of invocation i
ExecutorStep(i, k) == RemoveRoles(i, k) \/ AddRoles(i, k) \/ ChannelSend(i, k)

\* await asyncio.gather(*tasks) returns: handle_command ends (line 190)
GatherReturn(i) ==
    /\ inv[i].pc = "Fanout"
    /\ gather(ex[i]) = "return"
    /\ inv' = [inv EXCEPT ![i].pc = "Done"]
    /\ UNCHANGED <<now, commands, guildRoles, channels, roleIds, joinedAt, ex, sent, log>>

\* await asyncio.gather(*tasks) raises: handle_command ends with the exception
GatherRaise(i) ==
    /\ inv[i].pc = "Fanout"
    /\ gather(ex[i]) = "raise"
    /\ inv' = [inv EXCEPT ![i].pc = "Error"]
    /\ ex' = [ex EXCEPT ![i] = GatherChildrenOnRaise(@)]
    /\ UNCHANGED <<now, commands, guildRoles, channels, roleIds, joinedAt, sent, log>>

Next ==
    \/ \E i \in Invocations : HandleCommand(i)
    \/ \E i \in Invocations : Reply(i)
    \/ \E i \in Invocations : \E k \in DOMAIN ex[i] : RemoveRoles(i, k)
    \/ \E i \in Invocations : \E k \in DOMAIN ex[i] : AddRoles(i, k)
    \/ \E i \in Invocations : \E k \in DOMAIN ex[i] : ChannelSend(i, k)
    \/ \E i \in Invocations : GatherReturn(i)
    \/ \E i \in Invocations : GatherRaise(i)

Spec == Init /\ [][Next]_vars

\* The event loop runs every task that is ready, and every collaborator call
\* returns or fails: a reply that is being sent is sent, a task that has a
\* next call completes it, and handle_command is resumed when gather is done
Fairness ==
    \A i \in Invocations :
        /\ WF_vars(Reply(i))
        /\ WF_vars(GatherReturn(i))
        /\ WF_vars(GatherRaise(i))
        /\ \A k \in 1..NMembers : WF_vars(k \in DOMAIN ex[i] /\ ExecutorStep(i, k))

FairSpec == Spec /\ Fairness

\* ===================================================================== claims
Finished(i) == inv[i].pc \in {"Done", "Error"}

\* the calls of a task on which all three steps succeeded
AllThreeOk == <<Call("remove_roles", TRUE), Call("add_roles", TRUE), Call("send", TRUE)>>

\* a denied role mutation among the calls
RoleMutationDenied(calls) ==
    \E j \in DOMAIN calls : calls[j].op \in {"remove_roles", "add_roles"} /\ ~calls[j].ok

\* C1 (fan-out isolation): the failure of one executor never aborts a sibling.
\* A step in which an executor of an invocation ends with Forbidden, or in
\* which the invocation ends with that error, leaves every other executor of
\* the invocation as it was; an executor that has not ended can always take
\* its next step, whatever happened to its siblings and to handle_command;
\* and an executor that returned has performed its three steps: source role
\* removed, target role added, congratulation delivered.
C1_NoAbort ==
    \A i \in Invocations :
        /\ \A a \in DOMAIN ex[i] : \A b \in DOMAIN ex'[i] :
              (a # b /\ Outcome(ex[i][a]) # "raised" /\ Outcome(ex'[i][a]) = "raised")
                  => (b \in DOMAIN ex[i] /\ ex'[i][b] = ex[i][b])
        /\ (inv[i].pc = "Fanout" /\ inv'[i].pc = "Error") => ex'[i] = ex[i]

C1_CanGoOn ==
    \A i \in Invocations : \A k \in DOMAIN ex[i] :
        Outcome(ex[i][k]) = "running" => ENABLED ExecutorStep(i, k)

C1_Success ==
    \A i \in Invocations : \A k \in DOMAIN ex[i] :
        Outcome(ex[i][k]) = "returned" =>
            /\ ex[i][k].calls = AllThreeOk
            /\ OLD_ROLE_ID \notin roleIds[ex[i][k].member]
            /\ NEW_ROLE_ID \in roleIds[ex[i][k].member]
            /\ CopiesIn(Announcement(i, ex[i][k]), sent) = 1

C1_FanoutIsolation == [][C1_NoAbort]_vars /\ []C1_CanGoOn /\ []C1_Success

\* C1 witness: A's role mutation was denied, handle_command has ended with the
\* error, and B of the same invocation has returned with its three steps done
C1_Witness ==
    \E i \in Invocations : \E a \in DOMAIN ex[i], b \in DOMAIN ex[i] :
        /\ a # b
        /\ RoleMutationDenied(ex[i][a].calls)
        /\ inv[i].pc = "Error"
        /\ ex[i][b].calls = AllThreeOk
        /\ NEW_ROLE_ID \in roleIds[ex[i][b].member]
        /\ CopiesIn(Announcement(i, ex[i][b]), sent) = 1

\* C2 as stated (all-complete barrier): an invocation that dispatched executors
\* has not left the Fanout step while one of them is still in progress.
C2_Barrier ==
    \A i \in Invocations :
        Finished(i) => \A k \in DOMAIN ex[i] : Outcome(ex[i][k]) # "running"

\* C2 amended: handle_command leaves the Fanout step by returning only when
\* every dispatched executor has returned, and by ending with an error only
\* when some dispatched executor has raised; until one of the two it stays
\* in the Fanout step.
C2_BarrierOnSuccess ==
    \A i \in Invocations :
        /\ (inv[i].pc = "Done" /\ inv[i].resolved) =>
              \A k \in DOMAIN ex[i] : Outcome(ex[i][k]) = "returned"
        /\ inv[i].pc = "Error" =>
              \E k \in DOMAIN ex[i] : Outcome(ex[i][k]) = "raised"
        /\ (ex[i] # <<>> /\ \A k \in DOMAIN ex[i] : Outcome(ex[i][k]) = "running") =>
              inv[i].pc = "Fanout"

\* C2 witness: the invocation has ended with the error of one executor while
\* a sibling is still between its steps
C2_Witness ==
    \E i \in Invocations : \E a \in DOMAIN ex[i], b \in DOMAIN ex[i] :
        /\ inv[i].pc = "Error"
        /\ Outcome(ex[i][a]) = "raised"
        /\ Outcome(ex[i][b]) = "running"
        /\ ex[i][b].calls # <<>>

\* C3 as stated: a Forbidden never leaves the executor, and the invocation
\* never ends in an error state.
C3_NoPropagation ==
    \A i \in Invocations :
        /\ inv[i].pc # "Error"
        /\ \A k \in DOMAIN ex[i] : Outcome(ex[i][k]) # "raised"

\* the log records of the executor of invocation i for member m
ForbiddenRecords(i, m) == CopiesIn([inv |-> i, member |-> m, msg |-> ForbiddenLog], log)

\* C3 amended: a Forbidden raised by any of the three steps is caught and
\* logged once inside the executor and then raised again: the executor ends
\* with the exception exactly when its last call was denied, it has one log
\* record then and none otherwise, and the invocation ends in an error state
\* only when one of its executors ended so.
C3_LoggedAndReraised ==
    \A i \in Invocations :
        /\ \A k \in DOMAIN ex[i] :
              LET calls == ex[i][k].calls
                  denied == calls # <<>> /\ ~calls[Len(calls)].ok
              IN  /\ Outcome(ex[i][k]) = "raised" <=> denied
                  /\ ForbiddenRecords(i, ex[i][k].member) = IF denied THEN 1 ELSE 0
        /\ inv[i].pc = "Error" => \E k \in DOMAIN ex[i] : Outcome(ex[i][k]) = "raised"

\* C3 witness: the delivery of the congratulation was denied after both role
\* mutations, the denial is logged and the invocation has ended in error
C3_Witness ==
    \E i \in Invocations : \E k \in DOMAIN ex[i] :
        /\ ex[i][k].calls = <<Call("remove_roles", TRUE), Call("add_roles", TRUE),
                              Call("send", FALSE)>>
        /\ ForbiddenRecords(i, ex[i][k].member) = 1
        /\ inv[i].pc = "Error"

\* C4 (remove-then-add): every add of the target role by an executor comes
\* after a removal of the source role that the same executor completed
\* without error.
C4_RemoveThenAdd ==
    \A i \in Invocations : \A k \in DOMAIN ex[i] :
        LET calls == ex[i][k].calls
        IN  \A j \in DOMAIN calls :
                calls[j].op = "add_roles" =>
                    \E h \in 1..(j - 1) : calls[h] = Call("remove_roles", TRUE)

\* C4 witness: an executor whose add was issued, and one whose removal was
\* denied and which issued nothing after it
C4_Witness ==
    \E i \in Invocations : \E a \in DOMAIN ex[i], b \in DOMAIN ex[i] :
        /\ Len(ex[i][a].calls) >= 2
        /\ ex[i][a].calls[2].op = "add_roles"
        /\ ex[i][b].calls = <<Call("remove_roles", FALSE)>>
        /\ Finished(i)

\* the time a candidate had been in the guild when it was evaluated
Elapsed(e) == e.at - joinedAt[e.member]

\* C5 (strict eligibility boundary): every evaluation of check_join_time gave
\* true iff the time since the member joined was greater than the threshold.
C5_StrictBoundary ==
    \A i \in Invocations : \A k \in DOMAIN inv[i].evals :
        inv[i].evals[k].result <=> (Elapsed(inv[i].evals[k]) > inv[i].threshold)

\* C5 witness: in one invocation, a member that joined exactly a threshold ago
\* was found not eligible and one that joined a second earlier eligible
C5_Witness ==
    \E i \in Invocations : \E j \in DOMAIN inv[i].evals, k \in DOMAIN inv[i].evals :
        /\ Elapsed(inv[i].evals[j]) = inv[i].threshold
        /\ ~inv[i].evals[j].result
        /\ Elapsed(inv[i].evals[k]) = inv[i].threshold + 1
        /\ inv[i].evals[k].result

\* C6 as stated (consistent snapshot): within one invocation the clock is read
\* once, so two candidates that joined at the same instant get the same
\* eligibility result.
C6_ConsistentSnapshot ==
    \A i \in Invocations : \A j \in DOMAIN inv[i].evals, k \in DOMAIN inv[i].evals :
        joinedAt[inv[i].evals[j].member] = joinedAt[inv[i].evals[k].member]
            => inv[i].evals[j].result = inv[i].evals[k].result

\* the members for which invocation i dispatched an executor
Dispatched(i) == {ex[i][k].member : k \in DOMAIN ex[i]}

\* C7 (exactly-once dispatch): an invocation that passed both gates evaluated
\* exactly the members that held the source role at enumeration, dispatched an
\* executor for exactly those of them whose time in the guild exceeded the
\* threshold, and dispatched no two executors for the same member.
C7_ExactlyOnce ==
    \A i \in Invocations :
        inv[i].resolved =>
            /\ {inv[i].evals[k].member : k \in DOMAIN inv[i].evals} = inv[i].held
            /\ Len(inv[i].evals) = Cardinality(inv[i].held)
            /\ Dispatched(i) =
                  {inv[i].evals[k].member :
                      k \in {h \in DOMAIN inv[i].evals :
                                Elapsed(inv[i].evals[h]) > inv[i].threshold}}
            /\ \A j \in DOMAIN ex[i], k \in DOMAIN ex[i] :
                  ex[i][j].member = ex[i][k].member => j = k

\* C7 witness: of two members, one holds the source role and is eligible and
\* has the only executor, the other one does not hold the source role
C7_Witness ==
    \E i \in Invocations : \E m \in Members, n \in Members :
        /\ inv[i].resolved
        /\ Dispatched(i) = {m}
        /\ n \notin inv[i].held
        /\ n # m
        /\ Len(ex[i]) = 1

\* the members invocation i promoted: all three steps of their executor done
Promoted(i) == {ex[i][k].member : k \in {h \in DOMAIN ex[i] : ex[i][h].calls = AllThreeOk}}

\* the congratulations invocation i delivered
Delivered(i) ==
    {b \in BagToSet(sent) : b.inv = i}

\* C8 as stated (success reporting): an invocation that has ended and promoted
\* N >= 1 members has sent the invoker a reply.
C8_SuccessReply ==
    \A i \in Invocations :
        (Finished(i) /\ Promoted(i) # {}) => inv[i].replies # <<>>

\* C8 amended: an invocation that promotes N >= 1 members sends the invoker
\* no reply; its N successes show only as N congratulations in the
\* announcement channel, one for each promoted member.
C8_CongratulationsOnly ==
    \A i \in Invocations :
        /\ ex[i] # <<>> => inv[i].replies = <<>>
        /\ {b.msg : b \in Delivered(i)} = {Congratulation(m) : m \in Promoted(i)}
        /\ \A b \in Delivered(i) : CopiesIn(b, sent) = 1

\* C8 witness: an invocation has returned after promoting both members
C8_Witness ==
    \E i \in Invocations :
        /\ inv[i].pc = "Done"
        /\ Cardinality(Promoted(i)) = 2
        /\ Cardinality(Delivered(i)) = 2
        /\ inv[i].replies = <<>>

\* the admin role exists in the guild and the author of invocation i holds it
HoldsAdminRole(i) ==
    ADMIN_ROLE_ID \in guildRoles /\ ADMIN_ROLE_ID \in inv[i].authorIds

\* the invocation went past the first gate
Authorized(i) == inv[i].pc \notin {"Idle", "AuthDenied"} /\ inv[i].replies # <<NotAuthorizedText>>

\* C9 (authorization guard): an invocation gets past the authorization check
\* iff the admin role exists in the guild and the invoker holds it, so an
\* invoker without it is denied also when the role does not exist; and the
\* step that makes the check changes no role, no channel and no member.
C9_Decision ==
    \A i \in Invocations : inv[i].pc # "Idle" => (Authorized(i) <=> HoldsAdminRole(i))

C9_NoSideEffect ==
    \A i \in Invocations :
        (inv[i].pc = "Idle" /\ inv'[i].pc # "Idle") =>
            UNCHANGED <<guildRoles, channels, roleIds, joinedAt, sent>>

C9_AuthorizationGuard == []C9_Decision /\ [][C9_NoSideEffect]_vars

\* C9 witness: the invoker carries the id of an admin role that no longer
\* exists in the guild, and has been denied
C9_Witness ==
    \E i \in Invocations :
        /\ ADMIN_ROLE_ID \notin guildRoles
        /\ ADMIN_ROLE_ID \in inv[i].authorIds
        /\ inv[i].replies = <<NotAuthorizedText>>

\* the log records of invocation i
Logged(i) == {b \in BagToSet(log) : b.inv = i}

\* C10 (AuthDenied gate): an invocation whose invoker does not hold the admin
\* role does nothing but send the "not authorized" reply and end: it resolves
\* and enumerates nothing, logs nothing, dispatches no executor, delivers no
\* announcement, and none of its steps changes a member's roles.
C10_State ==
    \A i \in Invocations :
        (inv[i].pc # "Idle" /\ ~HoldsAdminRole(i)) =>
            /\ inv[i].pc \in {"AuthDenied", "Done"}
            /\ inv[i].replies = IF inv[i].pc = "Done" THEN <<NotAuthorizedText>> ELSE <<>>
            /\ ~inv[i].resolved
            /\ inv[i].evals = <<>>
            /\ ex[i] = <<>>
            /\ Delivered(i) = {}
            /\ Logged(i) = {}

C10_Step ==
    \A i \in Invocations :
        (inv'[i] # inv[i] /\ ~HoldsAdminRole(i)') =>
            UNCHANGED <<roleIds, sent, log, ex, guildRoles, channels>>

C10_AuthDeniedGate == []C10_State /\ [][C10_Step]_vars

\* C10 witness: an invoker without the admin role was denied and the
\* invocation has ended, in a guild where the source role does not resolve
\* and a member could otherwise be promoted
C10_Witness ==
    \E i \in Invocations :
        /\ ~HoldsAdminRole(i)
        /\ inv[i].pc = "Done"
        /\ inv[i].replies = <<NotAuthorizedText>>
        /\ NEW_ROLE_ID \notin guildRoles
        /\ \E m \in Members : OLD_ROLE_ID \in roleIds[m]

\* one of the source role, the target role and the channel does not resolve
ResourceMissing ==
    OLD_ROLE_ID \notin guildRoles \/ NEW_ROLE_ID \notin guildRoles \/ CHANNEL_ID \notin channels

NotFoundRecord(i) == [inv |-> i, member |-> 0, msg |-> NotFoundLog]

\* C11 (ResourceNotFound gate): an invocation by a holder of the admin role in
\* a guild where the source role, the target role or the channel does not
\* resolve logs one error, sends the "resource not found" reply and ends: it
\* enumerates and evaluates nothing, dispatches no executor, delivers no
\* announcement, and none of its steps changes a member's roles.
C11_State ==
    \A i \in Invocations :
        (inv[i].pc # "Idle" /\ HoldsAdminRole(i) /\ ResourceMissing) =>
            /\ inv[i].pc \in {"ResourceNotFound", "Done"}
            /\ inv[i].replies = IF inv[i].pc = "Done" THEN <<NotFoundText>> ELSE <<>>
            /\ Logged(i) = {NotFoundRecord(i)}
            /\ CopiesIn(NotFoundRecord(i), log) = 1
            /\ ~inv[i].resolved
            /\ inv[i].held = {}
            /\ inv[i].evals = <<>>
            /\ ex[i] = <<>>
            /\ Delivered(i) = {}

C11_Step ==
    \A i \in Invocations :
        (inv'[i] # inv[i] /\ HoldsAdminRole(i)' /\ ResourceMissing) =>
            UNCHANGED <<roleIds, sent, ex, guildRoles, channels>>

C11_ResourceNotFoundGate == []C11_State /\ [][C11_Step]_vars

\* C11 witness: only the target role is missing, the invoker holds the admin
\* role, a member holds the source role, and the invocation has ended with
\* the reply and the log record
C11_Witness ==
    \E i \in Invocations :
        /\ HoldsAdminRole(i)
        /\ guildRoles = {ADMIN_ROLE_ID, OLD_ROLE_ID}
        /\ CHANNEL_ID \in channels
        /\ \E m \in Members : OLD_ROLE_ID \in roleIds[m]
        /\ inv[i].pc = "Done"
        /\ inv[i].replies = <<NotFoundText>>
        /\ CopiesIn(NotFoundRecord(i), log) = 1

\* the candidates of invocation i whose time in the guild exceeded the threshold
Eligible(i) ==
    {inv[i].evals[k].member :
        k \in {h \in DOMAIN inv[i].evals : Elapsed(inv[i].evals[h]) > inv[i].threshold}}

\* C12 (NoEligibleCandidates): an invocation that passed both gates and found
\* no eligible member (no holder of the source role, or none past the
\* threshold) sends the "no eligible candidates" reply and ends, with no
\* executor, no role mutation, no log record and no announcement; and that
\* reply is sent only by an invocation that passed both gates and found no
\* eligible member.
C12_State ==
    \A i \in Invocations :
        /\ (inv[i].resolved /\ Eligible(i) = {}) =>
              /\ inv[i].pc \in {"NoCandidates", "Done"}
              /\ inv[i].replies = IF inv[i].pc = "Done" THEN <<NoCandidatesText>> ELSE <<>>
              /\ ex[i] = <<>>
              /\ Delivered(i) = {}
              /\ Logged(i) = {}
        /\ (inv[i].pc = "NoCandidates" \/ inv[i].replies = <<NoCandidatesText>>) =>
              /\ HoldsAdminRole(i)
              /\ ~ResourceMissing
              /\ inv[i].resolved
              /\ Eligible(i) = {}
              /\ \A m \in inv[i].held : \E k \in DOMAIN inv[i].evals :
                    inv[i].evals[k].member = m /\ Elapsed(inv[i].evals[k]) <= inv[i].threshold

C12_Step ==
    \A i \in Invocations :
        (inv'[i] # inv[i] /\ inv'[i].resolved /\ Eligible(i)' = {}) =>
            UNCHANGED <<roleIds, sent, log, ex>>

C12_NoEligibleCandidates == []C12_State /\ [][C12_Step]_vars

\* C12 witness: a holder of the source role joined exactly a threshold ago, is
\* the only candidate, and the invocation has ended with the reply
C12_Witness ==
    \E i \in Invocations : \E m \in Members :
        /\ inv[i].held = {m}
        /\ Len(inv[i].evals) = 1
        /\ Elapsed(inv[i].evals[1]) = inv[i].threshold
        /\ inv[i].pc = "Done"
        /\ inv[i].replies = <<NoCandidatesText>>
        /\ OLD_ROLE_ID \in roleIds[m]

\* the executor made its first call on a member that no longer held the
\* source role
RanWithoutSource(e) == e.calls # <<>> /\ e.old_role \notin e.before

\* C13 as stated (idempotence): an executor that runs on a member who no
\* longer holds the source role ends as a failure for that member: it adds no
\* role, delivers no congratulation and does not return as a success.
C13_Idempotence ==
    \A i \in Invocations : \A k \in DOMAIN ex[i] :
        RanWithoutSource(ex[i][k]) =>
            /\ Outcome(ex[i][k]) # "returned"
            /\ \A j \in DOMAIN ex[i][k].calls :
                  ex[i][k].calls[j].op \in {"add_roles", "send"} => ~ex[i][k].calls[j].ok
            /\ CopiesIn(Announcement(i, ex[i][k]), sent) = 0

\* the removal succeeded and the add was denied
AddDeniedAfterRemoval(calls) ==
    /\ Len(calls) >= 2
    /\ calls[1] = Call("remove_roles", TRUE)
    /\ calls[2] = Call("add_roles", FALSE)

\* C14 as stated: after a removal that succeeded and an add that was denied
\* the member holds neither the source role nor the target role.
C14_NeitherRole ==
    \A i \in Invocations : \A k \in DOMAIN ex[i] :
        AddDeniedAfterRemoval(ex[i][k].calls) =>
            /\ OLD_ROLE_ID \notin roleIds[ex[i][k].member]
            /\ NEW_ROLE_ID \notin roleIds[ex[i][k].member]

\* another invocation's executor granted the target role to the member
GrantedByAnother(i, m) ==
    \E j \in Invocations \ {i} : \E l \in DOMAIN ex[j] :
        /\ ex[j][l].member = m
        /\ Len(ex[j][l].calls) >= 2
        /\ ex[j][l].calls[2] = Call("add_roles", TRUE)

\* C14 amended: after a removal that succeeded and an add that was denied the
\* executor has ended with the exception and does nothing more for the member
\* (no second add, no re-add of the source role, no message): the member is
\* left without the source role, and without the target role unless it held
\* the target role before the executor ran or the executor of an overlapping
\* invocation granted it.
C14_NoRollbackNoRetry ==
    \A i \in Invocations : \A k \in DOMAIN ex[i] :
        AddDeniedAfterRemoval(ex[i][k].calls) =>
            /\ Len(ex[i][k].calls) = 2
            /\ Outcome(ex[i][k]) = "raised"
            /\ CopiesIn(Announcement(i, ex[i][k]), sent) = 0
            /\ OLD_ROLE_ID \notin roleIds[ex[i][k].member]
            /\ NEW_ROLE_ID \in roleIds[ex[i][k].member] =>
                  \/ NEW_ROLE_ID \in ex[i][k].before
                  \/ GrantedByAnother(i, ex[i][k].member)

\* C14 witness: the add was denied after the removal, the invocation has ended
\* with the error, and the member, who held only the source role, holds
\* neither role
C14_Witness ==
    \E i \in Invocations : \E k \in DOMAIN ex[i] :
        /\ AddDeniedAfterRemoval(ex[i][k].calls)
        /\ ex[i][k].before = {OLD_ROLE_ID}
        /\ inv[i].pc = "Error"
        /\ roleIds[ex[i][k].member] = {}

\* the command has been issued for the i-th time and handle_command has not
\* begun to run for it
Issued(i) ==
    /\ inv[i].pc = "Idle"
    /\ i <= commands
    /\ \A j \in Invocations : j < i => inv[j].pc # "Idle"

\* C15 (overlapping invocations race): nothing serializes the invocations.
\* An invocation that has been issued can always start, also while executors
\* of an earlier invocation are in progress; and when it passes the gates it
\* dispatches an executor for every member that holds the source role at
\* that moment and is past the threshold, also for a member for whom the
\* executor of another invocation is still in progress.
C15_CanStart ==
    \A i \in Invocations : Issued(i) => ENABLED HandleCommand(i)

C15_Dispatches ==
    \A i \in Invocations :
        (inv[i].pc = "Idle" /\ inv'[i].resolved) =>
            \A m \in Members :
                (OLD_ROLE_ID \in roleIds[m] /\ now - joinedAt[m] > inv'[i].threshold)
                    => m \in Dispatched(i)'

C15_NoSerialization == []C15_CanStart /\ [][C15_Dispatches]_vars

\* C15 witness: the executors of two invocations were dispatched for the same
\* member, the second before the first had removed the source role, and
\* both have processed the member to the end: two congratulations
C15_Witness ==
    \E i \in Invocations, j \in Invocations :
        \E k \in DOMAIN ex[i], l \in DOMAIN ex[j] :
            /\ i < j
            /\ ex[i][k].member = ex[j][l].member
            /\ ex[i][k].member \in inv[j].held
            /\ ex[i][k].calls = AllThreeOk
            /\ ex[j][l].calls = AllThreeOk
            /\ CopiesIn(Announcement(i, ex[i][k]), sent) = 1
            /\ CopiesIn(Announcement(j, ex[j][l]), sent) = 1

\* C16 (announcement ordering): every congratulation an invocation delivered
\* was sent by one of its executors as its third call, after that executor's
\* removal of the source role and add of the target role had both completed
\* without error; it was delivered once, and the invocation delivered no
\* other congratulation for the same member.
C16_AnnouncementOrdering ==
    \A i \in Invocations :
        /\ \A b \in Delivered(i) :
              /\ CopiesIn(b, sent) = 1
              /\ \E k \in DOMAIN ex[i] :
                    /\ Announcement(i, ex[i][k]) = b
                    /\ Len(ex[i][k].calls) = 3
                    /\ ex[i][k].calls = AllThreeOk
        /\ \A m \in Members :
              Cardinality({b \in Delivered(i) : b.msg.mention = m}) <= 1
        /\ \A k \in DOMAIN ex[i] :
              CopiesIn(Announcement(i, ex[i][k]), sent) =
                  IF \E j \in DOMAIN ex[i][k].calls : ex[i][k].calls[j] = Call("send", TRUE)
                  THEN 1 ELSE 0

\* C16 witness: one member's congratulation is delivered while the sibling,
\* whose two role mutations are done, has not sent its own yet
C16_Witness ==
    \E i \in Invocations : \E a \in DOMAIN ex[i], b \in DOMAIN ex[i] :
        /\ a # b
        /\ ex[i][a].calls = AllThreeOk
        /\ ex[i][b].calls = <<Call("remove_roles", TRUE), Call("add_roles", TRUE)>>
        /\ Cardinality(Delivered(i)) = 1

\* the k-th executor of invocation i took a step
Stepped(i, k) == k \in DOMAIN ex'[i] /\ ex'[i][k].calls # ex[i][k].calls

\* C17 (frame of an executor): a member's role set changes only in a step of
\* an executor dispatched for that member, and then only by losing the
\* source role or gaining the target role; that step changes no other
\* member's role set and no other executor; so a member for whom no executor
\* was dispatched keeps the source role it held at enumeration.
C17_Step ==
    \A m \in Members :
        roleIds'[m] # roleIds[m] =>
            /\ \E i \in Invocations : \E k \in DOMAIN ex[i] :
                  /\ ex[i][k].member = m
                  /\ Stepped(i, k)
                  /\ \A j \in Invocations : \A l \in DOMAIN ex[j] :
                        <<j, l>> # <<i, k>> => ex'[j][l] = ex[j][l]
            /\ \/ roleIds'[m] = roleIds[m] \ {OLD_ROLE_ID}
               \/ roleIds'[m] = roleIds[m] \cup {NEW_ROLE_ID}
            /\ \A n \in Members \ {m} : roleIds'[n] = roleIds[n]

C17_NotDispatched ==
    \A i \in Invocations : \A m \in inv[i].held :
        (\A j \in Invocations : m \notin Dispatched(j)) => OLD_ROLE_ID \in roleIds[m]

C17_Frame == [][C17_Step]_vars /\ []C17_NotDispatched

\* C17 witness: one member has been promoted while the other, a holder of the
\* source role that was not eligible, still holds it when the invocation ends
C17_Witness ==
    \E i \in Invocations : \E m \in Members, n \in Members :
        /\ m \in Promoted(i)
        /\ n \in inv[i].held \ Dispatched(i)
        /\ OLD_ROLE_ID \in roleIds[n]
        /\ roleIds[m] = {NEW_ROLE_ID}
        /\ inv[i].pc = "Done"

\* C18 (termination): under the fair scheduling of FairSpec every invocation
\* that has begun eventually ends, at one of its early exits or at the end of
\* the fan-out (by returning or with the error of an executor), and every
\* executor that was dispatched eventually returns or raises.
C18_Termination ==
    /\ \A i \in Invocations : (inv[i].pc # "Idle") ~> Finished(i)
    /\ \A i \in Invocations : \A k \in 1..NMembers :
          (k \in DOMAIN ex[i]) ~> (k \in DOMAIN ex[i] /\ Outcome(ex[i][k]) # "running")

\* C18 witness: an invocation that dispatched two executors has ended with
\* the error of one of them, and both executors have ended, one by returning
C18_Witness ==
    \E i \in Invocations : \E a \in DOMAIN ex[i], b \in DOMAIN ex[i] :
        /\ inv[i].pc = "Error"
        /\ Outcome(ex[i][a]) = "raised"
        /\ Outcome(ex[i][b]) = "returned"

\* C19 (resolved resources at dispatch): executors are created in the very
\* step in which handle_command passes the gates, so nothing happens between
\* the resolution made by check_roles_and_channel and the one of lines
\* 180-182; every executor holds a source role, a target role and a channel
\* that are not None and are the ones the configured identifiers resolve to,
\* and only an invocation that passed the resource gate has executors.
C19_Resolved ==
    \A i \in Invocations :
        /\ ex[i] # <<>> => (inv[i].resolved /\ ~ResourceMissing)
        /\ \A k \in DOMAIN ex[i] :
              /\ ex[i][k].old_role # None
              /\ ex[i][k].new_role # None
              /\ ex[i][k].channel # None
              /\ ex[i][k].old_role = get_role(OLD_ROLE_ID)
              /\ ex[i][k].new_role = get_role(NEW_ROLE_ID)
              /\ ex[i][k].channel = get_channel(CHANNEL_ID)

C19_SameStep ==
    \A i \in Invocations :
        (ex[i] = <<>> /\ ex'[i] # <<>>) =>
            /\ inv[i].pc = "Idle"
            /\ inv'[i].pc = "Fanout"
            /\ check_roles_and_channel
            /\ UNCHANGED <<guildRoles, channels>>

C19_ResolvedAtDispatch == []C19_Resolved /\ [][C19_SameStep]_vars

\* C19 witness: an invocation has just dispatched an executor, which has made
\* no call yet and holds the two roles and the channel
C19_Witness ==
    \E i \in Invocations : \E k \in DOMAIN ex[i] :
        /\ inv[i].pc = "Fanout"
        /\ ex[i][k].calls = <<>>
        /\ ex[i][k].old_role = OLD_ROLE_ID
        /\ ex[i][k].new_role = NEW_ROLE_ID
        /\ ex[i][k].channel = CHANNEL_ID

====
